---- MODULE Spec2Model ----
(***************************************************************************)
(* Pricing, fee, allowlist and lifecycle core of the mmm NFT liquidity     *)
(* pool program (programs/mmm/src/util.rs and instructions/update_pool.rs).*)
(*                                                                         *)
(* u64 and u128 values are modelled at their true width.  Such values do   *)
(* not fit the model checker's machine integers, so a number is a          *)
(* little-endian sequence of base-2^8 limbs without leading zero limbs     *)
(* (zero is << >>); two numbers are equal iff their sequences are equal.   *)
(***************************************************************************)
EXTENDS Integers, Sequences, FiniteSets

VARIABLES
    pool,        \* the Pool account (util.rs: pool: &Pool)
    lamports,    \* the balances of the pool account and of its owner
    pc,          \* "idle", or "transferred" inside try_close_pool
    call,        \* the last call: its arguments and what it returned
    allowlists,  \* the allowlist entries given to check_allowlists_for_mint
    nft          \* the mint, metadata and master edition records given to it

vars == <<pool, lamports, pc, call, allowlists, nft>>

(***************************************************************************)
(* Unbounded natural-number arithmetic on limb sequences.                  *)
(***************************************************************************)
Base == 2 ^ 8

\* the number of limbs of a `bits`-bit integer
Limbs(bits) == bits \div 8

RECURSIVE Strip(_)
Strip(s) ==
    IF s = << >> THEN s
    ELSE IF s[Len(s)] = 0 THEN Strip(SubSeq(s, 1, Len(s) - 1))
    ELSE s

RECURSIVE N(_)
\* the number k (a machine integer >= 0) as a limb sequence
N(k) == IF k = 0 THEN << >> ELSE <<k % Base>> \o N(k \div Base)

Limb(a, i) == IF i <= Len(a) THEN a[i] ELSE 0

\* 2^e
Pow2(e) == [i \in 1..Limbs(e) |-> 0] \o <<2 ^ (e % 8)>>

RECURSIVE AddC(_, _, _, _)
AddC(a, b, i, c) ==
    IF i > Len(a) /\ i > Len(b) THEN (IF c = 0 THEN << >> ELSE <<c>>)
    ELSE LET s == Limb(a, i) + Limb(b, i) + c
         IN  <<s % Base>> \o AddC(a, b, i + 1, s \div Base)

BigAdd(a, b) == AddC(a, b, 1, 0)

RECURSIVE LessFrom(_, _, _)
LessFrom(a, b, i) ==
    IF i = 0 THEN FALSE
    ELSE IF a[i] # b[i] THEN a[i] < b[i]
    ELSE LessFrom(a, b, i - 1)

BigLess(a, b) ==
    IF Len(a) # Len(b) THEN Len(a) < Len(b) ELSE LessFrom(a, b, Len(a))

BigLeq(a, b) == ~BigLess(b, a)

RECURSIVE SubB(_, _, _, _)
SubB(a, b, i, br) ==
    IF i > Len(a) THEN << >>
    ELSE LET d == a[i] - Limb(b, i) - br
         IN  IF d < 0 THEN <<d + Base>> \o SubB(a, b, i + 1, 1)
             ELSE <<d>> \o SubB(a, b, i + 1, 0)

\* a - b, for b <= a
BigSub(a, b) == Strip(SubB(a, b, 1, 0))

RECURSIVE MulC(_, _, _, _)
MulC(a, k, i, c) ==
    IF i > Len(a) THEN N(c)
    ELSE LET t == a[i] * k + c
         IN  <<t % Base>> \o MulC(a, k, i + 1, t \div Base)

\* a * k for one limb k
MulLimb(a, k) == Strip(MulC(a, k, 1, 0))

ShiftLimb(a) == IF a = << >> THEN a ELSE <<0>> \o a

RECURSIVE MulFrom(_, _, _)
MulFrom(a, b, j) ==
    IF j > Len(b) THEN << >>
    ELSE BigAdd(MulLimb(a, b[j]), ShiftLimb(MulFrom(a, b, j + 1)))

BigMul(a, b) == MulFrom(a, b, 1)

RECURSIVE QDigit(_, _, _, _)
\* the largest d in lo..hi with b * d <= r (b * lo <= r is given)
QDigit(r, b, lo, hi) ==
    IF lo = hi THEN lo
    ELSE LET mid == (lo + hi + 1) \div 2
         IN  IF BigLeq(MulLimb(b, mid), r) THEN QDigit(r, b, mid, hi)
             ELSE QDigit(r, b, lo, mid - 1)

RECURSIVE DivFrom(_, _, _, _)
\* long division, most significant limb first; r is the running remainder
DivFrom(a, b, i, r) ==
    IF i = 0 THEN << >>
    ELSE LET t == Strip(<<a[i]>> \o r)
             q == QDigit(t, b, 0, Base - 1)
         IN  DivFrom(a, b, i - 1, BigSub(t, MulLimb(b, q))) \o <<q>>

\* floor(a / b), for b # 0
BigDiv(a, b) == Strip(DivFrom(a, b, Len(a), << >>))

\* the low `bits` bits of a: what an `as` cast to a narrower type keeps
Truncate(a, bits) ==
    Strip(SubSeq(a, 1, IF Len(a) < Limbs(bits) THEN Len(a) ELSE Limbs(bits)))

\* a < 2^bits
Fits(a, bits) == BigLess(a, Pow2(bits))

(***************************************************************************)
(* Rust's checked integer arithmetic.  An Option is a record; an operand   *)
(* that is already None yields None, which is what the chain               *)
(* `.ok_or(MMMErrorCode::NumericOverflow)?` does at every link: each       *)
(* failure leaves the function with the same error.                        *)
(***************************************************************************)
U64Bits == 64
U128Bits == 128

U64Max == BigSub(Pow2(U64Bits), N(1))

Some(v) == [some |-> TRUE, v |-> v]
None == [some |-> FALSE, v |-> << >>]

checked_mul(x, y, bits) ==
    IF ~x.some \/ ~y.some THEN None
    ELSE LET r == BigMul(x.v, y.v) IN IF Fits(r, bits) THEN Some(r) ELSE None

checked_add(x, y, bits) ==
    IF ~x.some \/ ~y.some THEN None
    ELSE LET r == BigAdd(x.v, y.v) IN IF Fits(r, bits) THEN Some(r) ELSE None

checked_sub(x, y) ==
    IF ~x.some \/ ~y.some THEN None
    ELSE IF BigLess(x.v, y.v) THEN None ELSE Some(BigSub(x.v, y.v))

checked_div(x, y) ==
    IF ~x.some \/ ~y.some THEN None
    ELSE IF y.v = << >> THEN None ELSE Some(BigDiv(x.v, y.v))

\* Result<T>: err = "Ok" carries val; any other err is the error returned
Ok(v) == [err |-> "Ok", val |-> v]
Err(e) == [err |-> e, val |-> << >>]

(***************************************************************************)
(* check_curve                                                             *)
(***************************************************************************)
CURVE_KIND_LINEAR == 0
CURVE_KIND_EXP == 1

check_curve(curve_type, curve_delta) ==
    IF curve_type > 1 THEN Err("InvalidCurveType")
    ELSE IF curve_type = 1 /\ BigLess(N(10000), curve_delta) THEN Err("InvalidCurveDelta")
    ELSE Ok(<< >>)

(***************************************************************************)
(* get_sol_total_price_and_next_price                                      *)
(***************************************************************************)
\* n*(2*p-(n-1)*delta)/2 when buying from the pool, n*(2*p+(n-1)*delta)/2
\* when selling to it; n is a u64
linear_total_price(p, delta, n, fulfill_buy) ==
    LET twoP == checked_mul(Some(p), Some(N(2)), U64Bits)
        span == checked_mul(checked_sub(Some(n), Some(N(1))), Some(delta), U64Bits)
        ends == IF fulfill_buy THEN checked_sub(twoP, span)
                ELSE checked_add(twoP, span, U64Bits)
    IN  checked_div(checked_mul(Some(n), ends, U64Bits), Some(N(2)))

linear_final_price_offbyone(p, delta, n, fulfill_buy) ==
    LET step == checked_mul(checked_sub(Some(n), Some(N(1))), Some(delta), U64Bits)
    IN  IF fulfill_buy THEN checked_sub(Some(p), step)
        ELSE checked_add(Some(p), checked_mul(Some(n), Some(delta), U64Bits), U64Bits)

linear_final_price_saturating(p, delta, n, fulfill_buy) ==
    LET step == checked_mul(Some(n), Some(delta), U64Bits)
    IN  IF fulfill_buy
        THEN (IF step.some /\ BigLess(p, step.v) THEN Some(<< >>)
              ELSE checked_sub(Some(p), step))
        ELSE checked_add(Some(p), step, U64Bits)

\* p - n*delta when buying from the pool, p + n*delta when selling to it
linear_final_price(p, delta, n, fulfill_buy) ==
    LET step == checked_mul(Some(n), Some(delta), U64Bits)
    IN  IF fulfill_buy THEN checked_sub(Some(p), step)
        ELSE checked_add(Some(p), step, U64Bits)

exp_next_price_swapped(curr_price, delta, fulfill_buy) ==
    LET factor == checked_add(Some(delta), Some(N(10000)), U128Bits)
    IN  IF ~fulfill_buy
        THEN checked_div(checked_mul(Some(curr_price), Some(N(10000)), U128Bits), factor)
        ELSE checked_div(checked_mul(Some(curr_price), factor, U128Bits), Some(N(10000)))

\* one iteration's update of curr_price (a u128)
exp_next_price(curr_price, delta, fulfill_buy) ==
    LET factor == checked_add(Some(delta), Some(N(10000)), U128Bits)
    IN  IF fulfill_buy
        THEN checked_div(checked_mul(Some(curr_price), Some(N(10000)), U128Bits), factor)
        ELSE checked_div(checked_mul(Some(curr_price), factor, U128Bits), Some(N(10000)))

RECURSIVE exp_loop(_, _, _, _, _)
\* `for _ in 0..n` with k iterations left; total_price is a u64, curr_price a
\* u128 that `as u64` narrows by dropping its high bits
exp_loop(k, total_price, curr_price, delta, fulfill_buy) ==
    IF k = 0 THEN Ok(<<total_price, Truncate(curr_price, U64Bits)>>)
    ELSE LET total == checked_add(Some(total_price),
                                  Some(Truncate(curr_price, U64Bits)), U64Bits)
             curr == exp_next_price(curr_price, delta, fulfill_buy)
         IN  IF ~total.some \/ ~curr.some THEN Err("NumericOverflow")
             ELSE exp_loop(k - 1, total.v, curr.v, delta, fulfill_buy)

\* n is the batch size as a machine integer; the result is
\* Ok(<<total_price, next_spot_price>>) or an error
get_sol_total_price_and_next_price(pl, n, fulfill_buy) ==
    LET p == pl.spot_price
        delta == pl.curve_delta
    IN  IF pl.curve_type = CURVE_KIND_LINEAR
        THEN LET total_price == linear_total_price(p, delta, N(n), fulfill_buy)
                 final_price == linear_final_price(p, delta, N(n), fulfill_buy)
             IN  IF ~total_price.some \/ ~final_price.some THEN Err("NumericOverflow")
                 ELSE Ok(<<total_price.v, final_price.v>>)
        ELSE IF pl.curve_type = CURVE_KIND_EXP
        THEN exp_loop(n, << >>, p, delta, fulfill_buy)
        ELSE Err("InvalidCurveType")

(***************************************************************************)
(* get_sol_lp_fee, get_sol_referral_fee                                    *)
(***************************************************************************)
\* ((total_sol_price as u128) * (bp as u128) / 10000) as u64; bp is a u16
fee_from_bp(total_sol_price, bp) ==
    LET r == checked_div(checked_mul(Some(total_sol_price), Some(N(bp)), U128Bits),
                         Some(N(10000)))
    IN  IF ~r.some THEN Err("NumericOverflow") ELSE Ok(Truncate(r.v, U64Bits))

get_sol_lp_fee_leq(pl, buyside_sol_escrow_balance, total_sol_price) ==
    IF pl.sellside_orders_count < 1 THEN Ok(<< >>)
    ELSE IF BigLeq(buyside_sol_escrow_balance, pl.spot_price) THEN Ok(<< >>)
    ELSE fee_from_bp(total_sol_price, pl.lp_fee_bp)

get_sol_lp_fee(pl, buyside_sol_escrow_balance, total_sol_price) ==
    IF pl.sellside_orders_count < 1 THEN Ok(<< >>)
    ELSE IF BigLess(buyside_sol_escrow_balance, pl.spot_price) THEN Ok(<< >>)
    ELSE fee_from_bp(total_sol_price, pl.lp_fee_bp)

get_sol_referral_fee(pl, total_sol_price) ==
    fee_from_bp(total_sol_price, pl.referral_bp)

(***************************************************************************)
(* check_allowlists, check_allowlists_for_mint                             *)
(***************************************************************************)
ALLOWLIST_KIND_EMPTY == 0
ALLOWLIST_KIND_FVCA == 1
ALLOWLIST_KIND_MINT == 2
ALLOWLIST_KIND_MCC == 3

TokenMetadataProgram == "token_metadata_program"

\* the derived addresses of a mint's metadata and master edition records
find_metadata_account(mint_key) == <<"metadata", mint_key>>
find_master_edition_account(mint_key) == <<"edition", mint_key>>

\* Allowlist::valid
valid(allowlist) == allowlist.kind <= ALLOWLIST_KIND_MCC

check_allowlists(lists) ==
    IF \E i \in 1..Len(lists) : ~valid(lists[i]) THEN Err("InvalidAllowLists")
    ELSE Ok(<< >>)

check_master_edition(master_edition) ==
    LET version == master_edition.data[1] IN version = 2 \/ version = 6

\* one arm of the match: "match" returns Ok, "next" goes on to the next
\* entry, "invalid" returns InvalidAllowLists
allowlist_arm_unverified(allowlist_val, mint, parsed_metadata) ==
    IF allowlist_val.kind = ALLOWLIST_KIND_EMPTY THEN "next"
    ELSE IF allowlist_val.kind = ALLOWLIST_KIND_FVCA
    THEN (IF parsed_metadata.creators.some
             /\ parsed_metadata.creators.v # << >>
             /\ parsed_metadata.creators.v[1].address = allowlist_val.value
          THEN "match" ELSE "next")
    ELSE IF allowlist_val.kind = ALLOWLIST_KIND_MINT
    THEN (IF mint.key = allowlist_val.value THEN "match" ELSE "next")
    ELSE IF allowlist_val.kind = ALLOWLIST_KIND_MCC
    THEN (IF parsed_metadata.collection.some
             /\ parsed_metadata.collection.v.key = allowlist_val.value
          THEN "match" ELSE "next")
    ELSE "invalid"

allowlist_arm(allowlist_val, mint, parsed_metadata) ==
    IF allowlist_val.kind = ALLOWLIST_KIND_EMPTY THEN "next"
    ELSE IF allowlist_val.kind = ALLOWLIST_KIND_FVCA
    THEN (IF parsed_metadata.creators.some
             /\ parsed_metadata.creators.v # << >>
             /\ parsed_metadata.creators.v[1].address = allowlist_val.value
             /\ parsed_metadata.creators.v[1].verified
          THEN "match" ELSE "next")
    ELSE IF allowlist_val.kind = ALLOWLIST_KIND_MINT
    THEN (IF mint.key = allowlist_val.value THEN "match" ELSE "next")
    ELSE IF allowlist_val.kind = ALLOWLIST_KIND_MCC
    THEN (IF parsed_metadata.collection.some
             /\ parsed_metadata.collection.v.key = allowlist_val.value
             /\ parsed_metadata.collection.v.verified
          THEN "match" ELSE "next")
    ELSE "invalid"

RECURSIVE allowlist_loop(_, _, _, _)
\* `for allowlist_val in allowlists.iter()` from entry i on
allowlist_loop(lists, i, mint, parsed_metadata) ==
    IF i > Len(lists) THEN Err("InvalidAllowLists")
    ELSE LET arm == allowlist_arm(lists[i], mint, parsed_metadata)
         IN  IF arm = "match" THEN Ok(<< >>)
             ELSE IF arm = "invalid" THEN Err("InvalidAllowLists")
             ELSE allowlist_loop(lists, i + 1, mint, parsed_metadata)

edition_check_version_first(master_edition) ==
    IF master_edition.data # << >>
    THEN (IF ~check_master_edition(master_edition) THEN Err("InvalidMasterEdition")
          ELSE IF master_edition.owner # TokenMetadataProgram
          THEN Err("AccountOwnedByWrongProgram")
          ELSE Ok(<< >>))
    ELSE Ok(<< >>)

\* the `if !master_edition.data_is_empty()` block
edition_check(master_edition) ==
    IF master_edition.data # << >>
    THEN (IF master_edition.owner # TokenMetadataProgram
          THEN Err("AccountOwnedByWrongProgram")
          ELSE IF ~check_master_edition(master_edition) THEN Err("InvalidMasterEdition")
          ELSE Ok(<< >>))
    ELSE Ok(<< >>)

\* metadata.parsed is what Metadata::from_account_info reads from the
\* record; metadata.parse_ok is whether it succeeds
check_allowlists_for_mint(lists, mint, metadata, master_edition) ==
    IF metadata.owner # TokenMetadataProgram THEN Err("AccountOwnedByWrongProgram")
    ELSE IF find_metadata_account(mint.key) # metadata.key THEN Err("ConstraintSeeds")
    ELSE IF find_master_edition_account(mint.key) # master_edition.key
    THEN Err("ConstraintSeeds")
    ELSE IF ~metadata.parse_ok THEN Err("MetadataParseError")
    ELSE IF edition_check(master_edition).err # "Ok" THEN edition_check(master_edition)
    ELSE allowlist_loop(lists, 1, mint, metadata.parsed)

(***************************************************************************)
(* The Pool account.  `initialized` stands for the account discriminator:  *)
(* it is what zeroing the account's data clears besides the fields.        *)
(***************************************************************************)
OwnerKey == "owner"
StrangerKey == "stranger"
DefaultKey == "default"

MkPool(spot_price, curve_type, curve_delta, lp_fee_bp, referral_bp, sellside_orders_count) ==
    [initialized |-> TRUE,
     spot_price |-> spot_price,
     curve_type |-> curve_type,
     curve_delta |-> curve_delta,
     reinvest |-> FALSE,
     expiry |-> 0,
     lp_fee_bp |-> lp_fee_bp,
     referral_bp |-> referral_bp,
     sellside_orders_count |-> sellside_orders_count,
     owner |-> OwnerKey,
     uuid |-> "uuid"]

\* the account after copy_from_slice(&[0; Pool::LEN])
ZeroPool ==
    [initialized |-> FALSE,
     spot_price |-> << >>,
     curve_type |-> 0,
     curve_delta |-> << >>,
     reinvest |-> FALSE,
     expiry |-> 0,
     lp_fee_bp |-> 0,
     referral_bp |-> 0,
     sellside_orders_count |-> 0,
     owner |-> DefaultKey,
     uuid |-> DefaultKey]

NoCall == [op |-> "none"]

NoNft ==
    [mint |-> [key |-> "A"],
     metadata |-> [owner |-> TokenMetadataProgram,
                   key |-> find_metadata_account("A"),
                   parse_ok |-> TRUE,
                   parsed |-> [creators |-> None, collection |-> None]],
     master_edition |-> [owner |-> TokenMetadataProgram,
                         key |-> find_master_edition_account("A"),
                         data |-> << >>]]

(***************************************************************************)
(* update_pool: the UpdatePool account constraints, then handler           *)
(***************************************************************************)
UpdateArgs ==
    { [spot_price |-> sp[1], curve_type |-> ct, curve_delta |-> cd,
       reinvest |-> sp[2], expiry |-> sp[3], lp_fee_bp |-> bp] :
        sp \in {<<N(2000), FALSE, 0>>, <<U64Max, TRUE, 1>>},
        ct \in {0, 1, 2},
        cd \in {N(100), N(10000), N(10001)},
        bp \in {0, 10000, 10001} }

\* the outcome of the account constraints and of check_curve
update_pool_result_unchecked_fee(args, signer) ==
    IF ~pool.initialized THEN Err("AccountDiscriminatorMismatch")
    ELSE IF signer # pool.owner THEN Err("ConstraintSeeds")
    ELSE check_curve(args.curve_type, args.curve_delta)

update_pool_result(args, signer) ==
    IF ~pool.initialized THEN Err("AccountDiscriminatorMismatch")
    ELSE IF args.lp_fee_bp > 10000 THEN Err("InvalidLPFeeBP")
    ELSE IF signer # pool.owner THEN Err("ConstraintSeeds")
    ELSE check_curve(args.curve_type, args.curve_delta)

UpdatePool(args, signer) ==
    LET res == update_pool_result(args, signer)
    IN  /\ pc = "idle"
        /\ pool' = IF res.err = "Ok"
                   THEN [pool EXCEPT !.spot_price = args.spot_price,
                                     !.curve_type = args.curve_type,
                                     !.curve_delta = args.curve_delta,
                                     !.reinvest = args.reinvest,
                                     !.expiry = args.expiry,
                                     !.lp_fee_bp = args.lp_fee_bp]
                   ELSE pool
        /\ call' = [op |-> "update_pool", args |-> args, signer |-> signer, res |-> res]
        /\ UNCHANGED <<lamports, pc, allowlists, nft>>

(***************************************************************************)
(* try_close_pool.  The system-program transfer is a cross-program call    *)
(* whose outcome the callee decides: transfer_ok is that outcome.  The     *)
(* zeroing is the step after it.                                           *)
(***************************************************************************)
TryClosePool_ignores_escrow(buyside_sol_escrow_balance, transfer_ok) ==
    /\ pc = "idle"
    /\ pool.initialized
    /\ IF pool.sellside_orders_count # 0
       THEN /\ call' = [op |-> "try_close_pool",
                        sellside_orders_count |-> pool.sellside_orders_count,
                        escrow |-> buyside_sol_escrow_balance, res |-> Ok(<< >>)]
            /\ UNCHANGED <<lamports, pc>>
       ELSE IF ~transfer_ok
       THEN /\ call' = [op |-> "try_close_pool",
                        sellside_orders_count |-> pool.sellside_orders_count,
                        escrow |-> buyside_sol_escrow_balance,
                        res |-> Err("TransferFailed")]
            /\ UNCHANGED <<lamports, pc>>
       ELSE /\ lamports' = [pool |-> << >>,
                            owner |-> BigAdd(lamports.owner, lamports.pool)]
            /\ pc' = "transferred"
            /\ call' = [op |-> "try_close_pool",
                        sellside_orders_count |-> pool.sellside_orders_count,
                        escrow |-> buyside_sol_escrow_balance, res |-> Err("Pending")]
    /\ UNCHANGED <<pool, allowlists, nft>>

TryClosePool(buyside_sol_escrow_balance, transfer_ok) ==
    /\ pc = "idle"
    /\ pool.initialized
    /\ IF pool.sellside_orders_count # 0 \/ buyside_sol_escrow_balance # << >>
       THEN /\ call' = [op |-> "try_close_pool",
                        sellside_orders_count |-> pool.sellside_orders_count,
                        escrow |-> buyside_sol_escrow_balance, res |-> Ok(<< >>)]
            /\ UNCHANGED <<lamports, pc>>
       ELSE IF ~transfer_ok
       THEN /\ call' = [op |-> "try_close_pool",
                        sellside_orders_count |-> pool.sellside_orders_count,
                        escrow |-> buyside_sol_escrow_balance,
                        res |-> Err("TransferFailed")]
            /\ UNCHANGED <<lamports, pc>>
       ELSE /\ lamports' = [pool |-> << >>,
                            owner |-> BigAdd(lamports.owner, lamports.pool)]
            /\ pc' = "transferred"
            /\ call' = [op |-> "try_close_pool",
                        sellside_orders_count |-> pool.sellside_orders_count,
                        escrow |-> buyside_sol_escrow_balance, res |-> Err("Pending")]
    /\ UNCHANGED <<pool, allowlists, nft>>

\* the copy_from_slice after the transfer returned, and the final Ok(())
TryClosePoolZero ==
    /\ pc = "transferred"
    /\ pool' = ZeroPool
    /\ pc' = "idle"
    /\ call' = [call EXCEPT !.res = Ok(<< >>)]
    /\ UNCHANGED <<lamports, allowlists, nft>>

InitPools ==
    { MkPool(N(1000), ct, N(100), 250, 100, cnt) : ct \in {0, 1}, cnt \in {0, 1} }

Init ==
    /\ pool \in InitPools
    /\ lamports = [pool |-> N(5000), owner |-> N(70000)]
    /\ pc = "idle"
    /\ call = NoCall
    /\ allowlists = << >>
    /\ nft = NoNft

Next ==
    \/ \E args \in UpdateArgs, signer \in {OwnerKey, StrangerKey} : UpdatePool(args, signer)
    \/ \E escrow \in {N(0), N(1)}, transfer_ok \in BOOLEAN : TryClosePool(escrow, transfer_ok)
    \/ TryClosePoolZero

Spec == Init /\ [][Next]_vars

(***************************************************************************)
(* Pricing: the pool is drawn from the curve configurations check_curve    *)
(* accepts; a run is one call of get_sol_total_price_and_next_price on it. *)
(***************************************************************************)
MaxN == 3

PriceSpots == {N(0), N(1), N(1000), N(1001), Pow2(63), U64Max}
LinearDeltas == {N(0), N(1), N(100), N(333), Pow2(62), U64Max}
ExpDeltas == {N(0), N(1), N(1000), N(10000)}

PricePools ==
    { MkPool(sp, CURVE_KIND_LINEAR, cd, 0, 0, 1) : sp \in PriceSpots, cd \in LinearDeltas }
    \cup
    { MkPool(sp, CURVE_KIND_EXP, cd, 0, 0, 1) : sp \in PriceSpots, cd \in ExpDeltas }

GetPrice(n, fulfill_buy) ==
    /\ call = NoCall
    /\ call' = [op |-> "price", n |-> n, fulfill_buy |-> fulfill_buy,
                res |-> get_sol_total_price_and_next_price(pool, n, fulfill_buy)]
    /\ UNCHANGED <<pool, lamports, pc, allowlists, nft>>

\* price n units sold to the pool, then n units bought from a pool that is
\* identical except that its spot price is the first call's next price
RoundTrip(n) ==
    LET first == get_sol_total_price_and_next_price(pool, n, FALSE)
        second == IF first.err = "Ok"
                  THEN get_sol_total_price_and_next_price(
                           [pool EXCEPT !.spot_price = first.val[2]], n, TRUE)
                  ELSE first
    IN  /\ call = NoCall
        /\ call' = [op |-> "round_trip", n |-> n, first |-> first, second |-> second]
        /\ UNCHANGED <<pool, lamports, pc, allowlists, nft>>

InitPrice ==
    /\ pool \in PricePools
    /\ lamports = [pool |-> N(5000), owner |-> N(70000)]
    /\ pc = "idle"
    /\ call = NoCall
    /\ allowlists = << >>
    /\ nft = NoNft

NextPrice ==
    \/ \E n \in 0..MaxN, fulfill_buy \in BOOLEAN : GetPrice(n, fulfill_buy)
    \/ \E n \in 1..MaxN : RoundTrip(n)

SpecPrice == InitPrice /\ [][NextPrice]_vars

(***************************************************************************)
(* Fees.  FeePools are pools whose basis points the account constraints    *)
(* admit; AnyBpPools range over the whole u16 range of the two fields.     *)
(***************************************************************************)
FeeTotals == {N(0), N(9999), N(12345678), Pow2(63), U64Max}
FeeEscrows == {N(0), N(999), N(1000), U64Max}

FeePools ==
    { MkPool(sp, CURVE_KIND_LINEAR, N(100), lp, rf, cnt) :
        sp \in {N(0), N(1000)}, lp \in {0, 250, 10000}, rf \in {0, 100, 10000},
        cnt \in {0, 1, 2} }

AnyBpPools ==
    { MkPool(sp, CURVE_KIND_LINEAR, N(100), lp, rf, cnt) :
        sp \in {N(0), N(1000)}, lp \in {0, 250, 10000, 10001, 65535},
        rf \in {0, 100, 10000, 10001, 65535}, cnt \in {0, 1} }

GetLpFee(buyside_sol_escrow_balance, total_sol_price) ==
    /\ call = NoCall
    /\ call' = [op |-> "lp_fee", escrow |-> buyside_sol_escrow_balance,
                total |-> total_sol_price,
                res |-> get_sol_lp_fee(pool, buyside_sol_escrow_balance, total_sol_price)]
    /\ UNCHANGED <<pool, lamports, pc, allowlists, nft>>

GetReferralFee(total_sol_price) ==
    /\ call = NoCall
    /\ call' = [op |-> "referral_fee", total |-> total_sol_price,
                res |-> get_sol_referral_fee(pool, total_sol_price)]
    /\ UNCHANGED <<pool, lamports, pc, allowlists, nft>>

InitFee ==
    /\ pool \in FeePools
    /\ lamports = [pool |-> N(5000), owner |-> N(70000)]
    /\ pc = "idle"
    /\ call = NoCall
    /\ allowlists = << >>
    /\ nft = NoNft

InitFeeAnyBp ==
    /\ pool \in AnyBpPools
    /\ lamports = [pool |-> N(5000), owner |-> N(70000)]
    /\ pc = "idle"
    /\ call = NoCall
    /\ allowlists = << >>
    /\ nft = NoNft

NextFee ==
    \/ \E escrow \in FeeEscrows, total \in FeeTotals : GetLpFee(escrow, total)
    \/ \E total \in FeeTotals : GetReferralFee(total)

SpecFee == InitFee /\ [][NextFee]_vars

SpecFeeAnyBp == InitFeeAnyBp /\ [][NextFee]_vars

(***************************************************************************)
(* Allowlists.  The entry sequences are those check_allowlists accepts,    *)
(* the gate a pool's allowlists pass before they are stored.               *)
(***************************************************************************)
MaxAllowlists == 2

AllowlistEntries ==
    { [kind |-> ALLOWLIST_KIND_EMPTY, value |-> DefaultKey],
      [kind |-> ALLOWLIST_KIND_FVCA, value |-> "A"],
      [kind |-> ALLOWLIST_KIND_MINT, value |-> "A"],
      [kind |-> ALLOWLIST_KIND_MCC, value |-> "A"],
      [kind |-> ALLOWLIST_KIND_MCC + 1, value |-> "A"] }

AllowlistSeqs == UNION { [1..k -> AllowlistEntries] : k \in 0..MaxAllowlists }

StoredAllowlists == { l \in AllowlistSeqs : check_allowlists(l).err = "Ok" }

CreatorLists ==
    { None, Some(<< >>),
      Some(<<[address |-> "A", verified |-> TRUE]>>),
      Some(<<[address |-> "A", verified |-> FALSE]>>),
      Some(<<[address |-> "B", verified |-> TRUE], [address |-> "A", verified |-> TRUE]>>) }

Collections ==
    { None,
      Some([key |-> "A", verified |-> TRUE]),
      Some([key |-> "A", verified |-> FALSE]),
      Some([key |-> "B", verified |-> TRUE]) }

\* NFTs whose records pass the structural checks
SoundNfts ==
    { [mint |-> [key |-> m],
       metadata |-> [owner |-> TokenMetadataProgram,
                     key |-> find_metadata_account(m),
                     parse_ok |-> TRUE,
                     parsed |-> [creators |-> cr, collection |-> co]],
       master_edition |-> [owner |-> TokenMetadataProgram,
                           key |-> find_master_edition_account(m),
                           data |-> ed]] :
        m \in {"A", "B"}, cr \in CreatorLists, co \in Collections,
        ed \in {<< >>, <<6>>} }

\* NFTs of mint A whose records may fail any of the structural checks
AnyRecordNfts ==
    { [mint |-> [key |-> "A"],
       metadata |-> [owner |-> mo,
                     key |-> find_metadata_account(mk),
                     parse_ok |-> po,
                     parsed |-> [creators |-> None, collection |-> None]],
       master_edition |-> [owner |-> eo,
                           key |-> find_master_edition_account(ek),
                           data |-> ed]] :
        mo \in {TokenMetadataProgram, "system_program"}, mk \in {"A", "B"},
        po \in BOOLEAN,
        eo \in {TokenMetadataProgram, "system_program"}, ek \in {"A", "B"},
        ed \in {<< >>, <<2>>, <<6>>, <<1>>} }

CheckMint ==
    /\ call = NoCall
    /\ call' = [op |-> "check_mint",
                res |-> check_allowlists_for_mint(allowlists, nft.mint, nft.metadata,
                                                  nft.master_edition)]
    /\ UNCHANGED <<pool, lamports, pc, allowlists, nft>>

InitMint ==
    /\ pool = MkPool(N(1000), CURVE_KIND_LINEAR, N(100), 0, 0, 1)
    /\ lamports = [pool |-> N(5000), owner |-> N(70000)]
    /\ pc = "idle"
    /\ call = NoCall
    /\ \/ allowlists \in StoredAllowlists /\ nft \in SoundNfts
       \/ /\ allowlists \in {<< >>, <<[kind |-> ALLOWLIST_KIND_MINT, value |-> "A"]>>}
          /\ nft \in AnyRecordNfts

NextMint == CheckMint

SpecMint == InitMint /\ [][NextMint]_vars

(***************************************************************************)
(* Reference arithmetic for the properties: unbounded, no checked          *)
(* operation and no narrowing.                                             *)
(***************************************************************************)
\* every intermediate value of the LINEAR buy formulas fits in 64 bits and
\* no subtraction goes below zero
LinearBuyFits(p, d, n) ==
    LET twoP == BigMul(p, N(2))
        span == BigMul(BigSub(n, N(1)), d)
    IN  /\ Fits(twoP, U64Bits)
        /\ Fits(span, U64Bits)
        /\ BigLeq(span, twoP)
        /\ Fits(BigMul(n, BigSub(twoP, span)), U64Bits)
        /\ Fits(BigMul(n, d), U64Bits)
        /\ BigLeq(BigMul(n, d), p)

RECURSIVE StepSumDown(_, _, _)
\* p + (p-d) + ... + (p-(k-1)*d), for (k-1)*d <= p
StepSumDown(p, d, k) ==
    IF k = 0 THEN << >>
    ELSE BigAdd(BigSub(p, BigMul(N(k - 1), d)), StepSumDown(p, d, k - 1))

\* the exact price one step after curr, None when it would be negative
ExactStep(curr, pl, fulfill_buy) ==
    IF pl.curve_type = CURVE_KIND_LINEAR
    THEN (IF fulfill_buy
          THEN (IF BigLess(curr, pl.curve_delta) THEN None
                ELSE Some(BigSub(curr, pl.curve_delta)))
          ELSE Some(BigAdd(curr, pl.curve_delta)))
    ELSE (IF fulfill_buy
          THEN Some(BigDiv(BigMul(curr, N(10000)), BigAdd(pl.curve_delta, N(10000))))
          ELSE Some(BigDiv(BigMul(curr, BigAdd(pl.curve_delta, N(10000))), N(10000))))

RECURSIVE ExactWalk(_, _, _, _, _)
\* the exact sum of k step prices from curr on, and the price after them
ExactWalk(k, total, curr, pl, fulfill_buy) ==
    IF k = 0 THEN [ok |-> TRUE, total |-> total, next |-> curr]
    ELSE LET nxt == ExactStep(curr, pl, fulfill_buy)
         IN  IF ~nxt.some THEN [ok |-> FALSE, total |-> << >>, next |-> << >>]
             ELSE ExactWalk(k - 1, BigAdd(total, curr), nxt.v, pl, fulfill_buy)

\* floor(total * bp / 10000)
ExactFee(total, bp) == BigDiv(BigMul(total, N(bp)), N(10000))

(***************************************************************************)
(* C1                                                                      *)
(***************************************************************************)
LinearBuyCall ==
    /\ call.op = "price"
    /\ pool.curve_type = CURVE_KIND_LINEAR
    /\ call.fulfill_buy
    /\ call.n >= 1

\* C1: pricing n >= 1 units bought from a LINEAR pool returns exactly
\* (n*(2p-(n-1)*d)/2, p-n*d), the sum of the step prices p, p-d, ...,
\* p-(n-1)*d, when every intermediate value fits in 64 bits and p >= n*d, and
\* fails with NumericOverflow in every other case; p=1000, d=100, n=3 gives
\* (2700, 700).
C1_LinearBuyClosedForm ==
    LinearBuyCall =>
        LET p == pool.spot_price
            d == pool.curve_delta
            n == N(call.n)
        IN  /\ IF LinearBuyFits(p, d, n)
               THEN /\ call.res =
                         Ok(<<BigDiv(BigMul(n, BigSub(BigMul(p, N(2)),
                                                      BigMul(BigSub(n, N(1)), d))), N(2)),
                              BigSub(p, BigMul(n, d))>>)
                    /\ call.res.val[1] = StepSumDown(p, d, call.n)
               ELSE call.res = Err("NumericOverflow")
            /\ (p = N(1000) /\ d = N(100) /\ call.n = 3)
                   => call.res = Ok(<<N(2700), N(700)>>)

C1_Witness ==
    /\ LinearBuyCall
    /\ pool.spot_price = N(1000)
    /\ pool.curve_delta = N(100)
    /\ call.n = 3
    /\ call.res = Ok(<<N(2700), N(700)>>)

(***************************************************************************)
(* C2                                                                      *)
(***************************************************************************)
ExpSellExampleCall ==
    /\ call.op = "price"
    /\ pool.curve_type = CURVE_KIND_EXP
    /\ pool.spot_price = N(1000)
    /\ pool.curve_delta = N(1000)
    /\ ~call.fulfill_buy
    /\ call.n = 2

\* C2 as stated: an EXPONENTIAL pool with spot price 1000 and delta 1000
\* prices 2 units sold to it at total 2100 and next spot price 1100.
C2_AsStated == ExpSellExampleCall => call.res = Ok(<<N(2100), N(1100)>>)

\* C2 amended: an EXPONENTIAL pool with spot price 1000 and delta 1000 prices
\* 2 units sold to it at total 2100 and next spot price 1210, the price after
\* the second step.
C2_ExpSellExample == ExpSellExampleCall => call.res = Ok(<<N(2100), N(1210)>>)

C2_Witness == ExpSellExampleCall /\ call.res.err = "Ok" /\ call.res.val[1] = N(2100)

(***************************************************************************)
(* C3                                                                      *)
(***************************************************************************)
\* C3: a pricing call either fails or returns the exact step sum and the
\* exact price after n steps, and it fails with NumericOverflow whenever one
\* of the exact values does not fit in 64 bits.
C3_ExactOrOverflow ==
    call.op = "price" =>
        LET e == ExactWalk(call.n, << >>, pool.spot_price, pool, call.fulfill_buy)
        IN  /\ call.res.err = "Ok" => (e.ok /\ call.res.val = <<e.total, e.next>>)
            /\ (e.ok /\ (~Fits(e.total, U64Bits) \/ ~Fits(e.next, U64Bits)))
                   => call.res.err = "NumericOverflow"

(***************************************************************************)
(* C9                                                                      *)
(***************************************************************************)
\* C9: for a LINEAR pool, when pricing n units sold to the pool succeeds
\* with next spot price p', and pricing n units bought from the same pool at
\* spot price p' succeeds, the second next spot price is the original one.
C9_LinearRoundTrip ==
    (/\ call.op = "round_trip"
     /\ pool.curve_type = CURVE_KIND_LINEAR
     /\ call.first.err = "Ok"
     /\ call.second.err = "Ok")
        => call.second.val[2] = pool.spot_price

C9_Witness ==
    /\ call.op = "round_trip"
    /\ pool.curve_type = CURVE_KIND_LINEAR
    /\ pool.spot_price = N(1000)
    /\ pool.curve_delta = N(100)
    /\ call.n = 2
    /\ call.first.err = "Ok"
    /\ call.first.val[2] = N(1200)
    /\ call.second.err = "Ok"

(***************************************************************************)
(* C4, C5                                                                  *)
(***************************************************************************)
LpFeeSuppressed ==
    \/ pool.sellside_orders_count < 1
    \/ BigLess(call.escrow, pool.spot_price)

\* C4: get_sol_lp_fee returns 0 when the pool has no sell-side orders or
\* the escrow balance is below the spot price, and floor(total * lp_fee_bp /
\* 10000) in every other case.
C4_LpFee ==
    call.op = "lp_fee" =>
        IF LpFeeSuppressed THEN call.res = Ok(<< >>)
        ELSE call.res = Ok(ExactFee(call.total, pool.lp_fee_bp))

C4_Witness ==
    /\ call.op = "lp_fee"
    /\ pool.sellside_orders_count = 1
    /\ call.escrow = pool.spot_price
    /\ pool.spot_price = N(1000)
    /\ pool.lp_fee_bp = 250
    /\ call.total = N(12345678)
    /\ call.res = Ok(N(308641))

\* C5: for every basis-point value of the u16 fields, the referral fee and
\* the non-suppressed LP fee are exactly floor(total * bp / 10000) or the
\* call fails with NumericOverflow.
C5_FeeExactOrOverflow ==
    /\ call.op = "referral_fee" =>
           \/ call.res = Ok(ExactFee(call.total, pool.referral_bp))
           \/ call.res.err = "NumericOverflow"
    /\ (call.op = "lp_fee" /\ ~LpFeeSuppressed) =>
           \/ call.res = Ok(ExactFee(call.total, pool.lp_fee_bp))
           \/ call.res.err = "NumericOverflow"

(***************************************************************************)
(* C6, C10                                                                 *)
(***************************************************************************)
MetadataChecksPass ==
    /\ nft.metadata.owner = TokenMetadataProgram
    /\ nft.metadata.key = find_metadata_account(nft.mint.key)
    /\ nft.master_edition.key = find_master_edition_account(nft.mint.key)

EditionPresent == nft.master_edition.data # << >>

EditionVersionValid == nft.master_edition.data[1] \in {2, 6}

StructurallySound ==
    /\ MetadataChecksPass
    /\ nft.metadata.parse_ok
    /\ EditionPresent =>
           (nft.master_edition.owner = TokenMetadataProgram /\ EditionVersionValid)

\* the match rule of an entry's kind
EntryMatches(e) ==
    LET md == nft.metadata.parsed
    IN  \/ /\ e.kind = ALLOWLIST_KIND_FVCA
           /\ md.creators.some
           /\ Len(md.creators.v) > 0
           /\ md.creators.v[1].address = e.value
           /\ md.creators.v[1].verified
        \/ /\ e.kind = ALLOWLIST_KIND_MINT
           /\ nft.mint.key = e.value
        \/ /\ e.kind = ALLOWLIST_KIND_MCC
           /\ md.collection.some
           /\ md.collection.v.key = e.value
           /\ md.collection.v.verified

Reorderings(s) ==
    { [i \in 1..Len(s) |-> s[f[i]]] :
        f \in { g \in [1..Len(s) -> 1..Len(s)] :
                  \A i, j \in 1..Len(s) : g[i] = g[j] => i = j } }

C10_AsStated ==
    (/\ call.op = "check_mint"
     /\ MetadataChecksPass
     /\ nft.metadata.parse_ok
     /\ EditionPresent
     /\ \/ nft.master_edition.owner # TokenMetadataProgram
        \/ ~EditionVersionValid)
        => call.res.err = "InvalidMasterEdition"

\* C10 amended: a failed metadata owner check gives
\* AccountOwnedByWrongProgram and a failed derived-address check
\* ConstraintSeeds, whatever the edition record holds; once these pass and
\* the metadata parses, a present edition record with a foreign owner gives
\* AccountOwnedByWrongProgram, a present one with the right owner and a
\* version byte other than 2 and 6 gives InvalidMasterEdition, and an empty
\* one is accepted without any owner or version check.
C10_EditionCheck ==
    call.op = "check_mint" =>
        /\ nft.metadata.owner # TokenMetadataProgram
               => call.res.err = "AccountOwnedByWrongProgram"
        /\ (nft.metadata.owner = TokenMetadataProgram /\ ~MetadataChecksPass)
               => call.res.err = "ConstraintSeeds"
        /\ (MetadataChecksPass /\ nft.metadata.parse_ok /\ EditionPresent) =>
               IF nft.master_edition.owner # TokenMetadataProgram
               THEN call.res.err = "AccountOwnedByWrongProgram"
               ELSE IF ~EditionVersionValid
               THEN call.res.err = "InvalidMasterEdition"
               ELSE call.res.err \in {"Ok", "InvalidAllowLists"}
        /\ (MetadataChecksPass /\ nft.metadata.parse_ok /\ ~EditionPresent)
               => call.res.err \in {"Ok", "InvalidAllowLists"}
        /\ call.res.err = "InvalidMasterEdition"
               => (MetadataChecksPass /\ EditionPresent /\ ~EditionVersionValid)

C10_Witness ==
    /\ call.op = "check_mint"
    /\ MetadataChecksPass
    /\ EditionPresent
    /\ nft.master_edition.data = <<1>>
    /\ call.res.err = "InvalidMasterEdition"

(***************************************************************************)
(* C7                                                                      *)
(***************************************************************************)
\* a step of try_close_pool that starts the call
CloseCallStep == pc = "idle" /\ call'.op = "try_close_pool"

CloseStep ==
    /\ (pool.initialized /\ ~pool'.initialized) =>
           /\ pc = "transferred"
           /\ pool.sellside_orders_count = 0
           /\ call.escrow = << >>
           /\ lamports.pool = << >>
           /\ pool' = ZeroPool
           /\ call'.res = Ok(<< >>)
    /\ (CloseCallStep /\ (pool.sellside_orders_count # 0 \/ call'.escrow # << >>)) =>
           /\ call'.res = Ok(<< >>)
           /\ pool' = pool
           /\ lamports' = lamports
           /\ pc' = "idle"
    /\ (CloseCallStep /\ call'.res.err = "TransferFailed") =>
           /\ pool' = pool
           /\ lamports' = lamports
           /\ pc' = "idle"
    /\ lamports' # lamports =>
           /\ CloseCallStep
           /\ pool' = pool
           /\ lamports'.owner = BigAdd(lamports.owner, lamports.pool)

\* C7: try_close_pool zeroes the pool only when its sell-side count and the
\* escrow balance are zero and the transfer of its balance to the owner has
\* completed; with either nonzero it returns Ok and leaves pool and balances
\* unchanged; a failed transfer returns the error and zeroes nothing.
C7_CloseOnlyAfterTransfer == [][CloseStep]_vars

C7_Witness ==
    /\ ~pool.initialized
    /\ pool = ZeroPool
    /\ call.op = "try_close_pool"
    /\ call.res = Ok(<< >>)
    /\ lamports = [pool |-> << >>, owner |-> N(75000)]

(***************************************************************************)
(* C8                                                                      *)
(***************************************************************************)
PoolConfigValid ==
    /\ pool.curve_type \in {CURVE_KIND_LINEAR, CURVE_KIND_EXP}
    /\ pool.curve_type = CURVE_KIND_EXP => BigLeq(pool.curve_delta, N(10000))
    /\ pool.lp_fee_bp <= 10000

UpdateStep ==
    call'.op = "update_pool" =>
        IF call'.res.err = "Ok"
        THEN /\ pool'.spot_price = call'.args.spot_price
             /\ pool'.curve_type = call'.args.curve_type
             /\ pool'.curve_delta = call'.args.curve_delta
             /\ pool'.reinvest = call'.args.reinvest
             /\ pool'.expiry = call'.args.expiry
             /\ pool'.lp_fee_bp = call'.args.lp_fee_bp
             /\ pool'.referral_bp = pool.referral_bp
             /\ pool'.sellside_orders_count = pool.sellside_orders_count
             /\ pool'.owner = pool.owner
             /\ pool'.uuid = pool.uuid
        ELSE pool' = pool

\* C8: from a pool with a valid curve type, an exponential delta of at most
\* 10000 and an LP fee of at most 10000, every sequence of update_pool calls
\* keeps the three conditions; a rejected call leaves every pool field
\* unchanged and an accepted call sets spot_price, curve_type, curve_delta,
\* reinvest, expiry and lp_fee_bp to the arguments and leaves referral_bp,
\* sellside_orders_count, owner and uuid unchanged.
C8_UpdateKeepsConfigValid == []PoolConfigValid /\ [][UpdateStep]_vars

C8_Witness ==
    /\ call.op = "update_pool"
    /\ call.res.err = "Ok"
    /\ pool.curve_type = CURVE_KIND_EXP
    /\ pool.curve_delta = N(10000)
    /\ pool.lp_fee_bp = 10000
    /\ pool.spot_price = U64Max
    /\ pool.referral_bp = 100

====
